---- MODULE Spec2Model ----
(***************************************************************************)
(* A model of src/index.py (SolanaStakingAnalyzer): the three HTTP         *)
(* fetchers, the APY calculator, the returns projector, the validator      *)
(* ranker, the validator table, the projection plot and the report.        *)
(*                                                                         *)
(* Numbers.  Python floats are modelled by exact rationals <<n, d>> in     *)
(* lowest terms (d > 0); a JSON or DataFrame cell is a Value, a record     *)
(* [k, q, u] whose kind k says what the cell holds.  Rounding error of     *)
(* IEEE doubles is not modelled.                                           *)
(***************************************************************************)
EXTENDS Integers, Sequences, FiniteSets, TLC

(***************************************************************************)
(* Exact rational arithmetic.                                              *)
(***************************************************************************)
Abs(x) == IF x < 0 THEN -x ELSE x

RECURSIVE GCD(_, _)
GCD(a, b) == IF b = 0 THEN a ELSE GCD(b, a % b)

Q(n, d) ==
    LET g == GCD(Abs(n), Abs(d))
        s == IF d < 0 THEN -1 ELSE 1
    IN  IF n = 0 THEN <<0, 1>> ELSE <<(s * n) \div g, (s * d) \div g>>

QAdd(a, b) == Q(a[1] * b[2] + b[1] * a[2], a[2] * b[2])
QSub(a, b) == Q(a[1] * b[2] - b[1] * a[2], a[2] * b[2])
QMul(a, b) == Q(a[1] * b[1], a[2] * b[2])
QDiv(a, b) == Q(a[1] * b[2], a[2] * b[1])
QLt(a, b) == a[1] * b[2] < b[1] * a[2]
QLe(a, b) == a[1] * b[2] <= b[1] * a[2]
QInt(n) == <<n, 1>>
QZero == <<0, 1>>

\* b ** e for a whole exponent e >= 0; Python gives x ** 0 = 1 for every x.
RECURSIVE QPow(_, _)
QPow(b, e) ==
    IF e = 0 THEN QInt(1)
    ELSE LET h == QPow(b, e \div 2)
             sq == QMul(h, h)
         IN  IF e % 2 = 1 THEN QMul(sq, b) ELSE sq

\* round-half-even of q to `digits` decimals (Series.round).
RECURSIVE Pow10(_)
Pow10(k) == IF k = 0 THEN 1 ELSE 10 * Pow10(k - 1)

FloorDiv(n, d) == n \div d

QRound(q, digits) ==
    LET s  == Pow10(digits)
        n2 == 2 * q[1] * s
        d2 == 2 * q[2]
        fl == FloorDiv(q[1] * s, q[2])
        r2 == n2 - fl * d2
        up == \/ r2 > q[2]
              \/ (r2 = q[2] /\ fl % 2 = 1)
    IN  Q(IF up THEN fl + 1 ELSE fl, s)

(***************************************************************************)
(* Values: what a JSON field, a function argument or a DataFrame cell      *)
(* holds.  k = "num": the number q; "numstr": a string that reads as the   *)
(* number q ("5"); "str": any other string; "null": JSON null / None;      *)
(* "absent": the key is missing; "nan": float NaN; "text": a formatted     *)
(* string, the number q followed by the suffix u.                          *)
(***************************************************************************)
Num(q)       == [k |-> "num",    q |-> q,     u |-> ""]
NumStr(q)    == [k |-> "numstr", q |-> q,     u |-> ""]
Str(s)       == [k |-> "str",    q |-> QZero, u |-> s]
Null         == [k |-> "null",   q |-> QZero, u |-> ""]
Absent       == [k |-> "absent", q |-> QZero, u |-> ""]
NaN          == [k |-> "nan",    q |-> QZero, u |-> ""]
Text(q, suf) == [k |-> "text",   q |-> q,     u |-> suf]

IsNum(v) == v.k = "num"

(***************************************************************************)
(* Program constants.                                                      *)
(***************************************************************************)
compounds_per_year == 365
PercentScale == 100
PlotStep == 30
ReportTopN == 5
stake_participation_rate == Q(4, 5)
DefaultInflation == Q(8, 100)
DefaultPrice == Num(QZero)
ApyWeight == Q(4, 10)
CommissionWeight == Q(3, 10)
CreditWeight == Q(3, 10)

(***************************************************************************)
(* The external sources.  A response is what one HTTP exchange produces:   *)
(* err names the exception requests.get, raise_for_status or .json()       *)
(* raises ("none" when the body is valid JSON), shape the form of the      *)
(* decoded body.                                                           *)
(***************************************************************************)
FetchErrors == {"ConnectionError", "HTTPError", "JSONDecodeError"}

\* --- price source: {"solana": {"usd": <usd>}} -----------------------------
PriceResp(err, shape, usd) == [err |-> err, shape |-> shape, usd |-> usd]

Prices == {QInt(2), QInt(3)}

PriceResponses ==
    {PriceResp(e, "none", Null) : e \in FetchErrors}
      \cup {PriceResp("none", "solana_usd", Num(p)) : p \in Prices}
      \cup {PriceResp("none", "solana_usd", v) : v \in {Null, Str("n/a")}}
      \cup {PriceResp("none", s, Null) : s \in {"no_solana", "list"}}

get_current_sol_price(resp) ==
    IF resp.err # "none" THEN DefaultPrice          \* requests / json raised
    ELSE IF resp.shape = "solana_usd" THEN resp.usd \* data["solana"]["usd"], as is
    ELSE DefaultPrice                               \* KeyError / TypeError on lookup

\* --- stats source ----------------------------------------------------------
\* The value get_network_stats returns: a mapping (with or without an
\* "inflation" entry), or whatever else the body decoded to.
Stats(shape, inflation) == [shape |-> shape, inflation |-> inflation]
EmptyStats == Stats("dict", Absent)

StatsResp(err, stats) == [err |-> err, stats |-> stats]

StatsResponses ==
    {StatsResp(e, EmptyStats) : e \in FetchErrors}
      \cup {StatsResp("none", Stats("dict", v)) :
              v \in {Absent, Num(QZero), Num(Q(8, 100)), Str("n/a")}}
      \cup {StatsResp("none", Stats(s, Absent)) : s \in {"list", "null"}}

get_network_stats(resp) ==
    IF resp.err # "none" THEN EmptyStats   \* except Exception: return {}
    ELSE resp.stats                        \* return response.json(), as is

\* --- validator source: {"data": [ {record}, ... ]} ------------------------
Fields == {"name", "commission", "apy", "totalActiveStake", "creditScore"}

Rec(name, commission, apy, stake, credit) ==
    [name |-> name, commission |-> commission, apy |-> apy,
     totalActiveStake |-> stake, creditScore |-> credit]

\* The records a validator body is built from: two with equal scores, one
\* with a commission given as a numeric string, one without creditScore, one
\* with an APY that is no number.
CandidateRecords ==
    { Rec(Str("a"), Num(QInt(5)), Num(QInt(7)), Num(QInt(1500000000)), Num(QInt(90))),
      Rec(Str("b"), Num(QInt(5)), Num(QInt(7)), Num(QInt(1500000000)), Num(QInt(90))),
      Rec(Str("c"), NumStr(QInt(0)), Num(QInt(7)), Absent, Num(QInt(90))),
      Rec(Str("d"), Num(QInt(5)), Num(QInt(7)), Absent, Absent),
      Rec(Str("e"), Num(QInt(10)), Str("n/a"), Absent, Num(QInt(90))) }

MaxValidators == 3

RECURSIVE SeqsUpTo(_, _)
SeqsUpTo(S, n) ==
    IF n = 0 THEN {<<>>}
    ELSE LET shorter == SeqsUpTo(S, n - 1)
         IN  shorter \cup {Append(s, x) : s \in {t \in shorter : Len(t) = n - 1}, x \in S}

\* The value of the body's "data" entry.
Data(k, rows) == [k |-> k, rows |-> rows]
EmptyList == Data("list", <<>>)

ValidatorsResp(err, shape, data) == [err |-> err, shape |-> shape, data |-> data]

ValidatorsResponses ==
    {ValidatorsResp(e, "none", EmptyList) : e \in FetchErrors}
      \cup {ValidatorsResp("none", "list", EmptyList)}
      \cup {ValidatorsResp("none", "dict", Data(k, <<>>)) : k \in {"absent", "null", "str"}}
      \cup {ValidatorsResp("none", "dict", Data("list", rows)) :
              rows \in SeqsUpTo(CandidateRecords, MaxValidators)}

get_validators(resp) ==
    IF resp.err # "none" THEN EmptyList            \* except Exception: return []
    ELSE IF resp.shape # "dict" THEN EmptyList     \* list has no .get: AttributeError
    ELSE IF resp.data.k = "absent" THEN EmptyList  \* .get("data", [])
    ELSE resp.data                                 \* the entry, as is

(***************************************************************************)
(* What a call produces: exc = "none" and the value, or the exception that *)
(* leaves the function and the source line that raises it.                 *)
(***************************************************************************)
NoProjection ==
    [initial_sol |-> QZero, final_sol |-> QZero, sol_earned |-> QZero,
     current_value_usd |-> QZero, projected_value_usd |-> QZero,
     roi_percentage |-> QZero]

Returned(proj) == [exc |-> "none", line |-> 0, ret |-> proj]
Raised(exc, line) == [exc |-> exc, line |-> line, ret |-> NoProjection]

(***************************************************************************)
(* calculate_apy (lines 62-70).                                            *)
(***************************************************************************)
\* validator_commission: float = 0.0
DefaultCommission == Q(0, 1)

calculate_apy_clamped(inflation_rate, validator_commission) ==
    LET c == IF QLt(QInt(1), validator_commission) THEN QInt(1) ELSE validator_commission
        net_inflation == QMul(inflation_rate, QSub(QInt(1), c))
        estimated_apy == QDiv(net_inflation, stake_participation_rate)
    IN  QMul(estimated_apy, QInt(PercentScale))

calculate_apy(inflation_rate, validator_commission) ==
    LET net_inflation == QMul(inflation_rate, QSub(QInt(1), validator_commission))
        estimated_apy == QDiv(net_inflation, stake_participation_rate)
    IN  QMul(estimated_apy, QInt(PercentScale))

(***************************************************************************)
(* calculate_staking_returns (lines 72-96).  The function takes the        *)
(* amount, the APY and the horizon; `price_resp` is the response the price *)
(* source gives to the fetch of line 74.                                   *)
(***************************************************************************)
\* Variants of calculate_staking_returns with one slip each: `shift` days
\* added to the horizon, the daily rate subtracted instead of added, the
\* ROI of a zero principal reported as 0, the projected value taken from the
\* principal.
ReturnsVariant(sol_amount, apy, time_period_days, price_resp, shift, subtract, zero_roi, from_principal) ==
    LET current_sol_price == get_current_sol_price(price_resp)
        apy_decimal == QDiv(apy, QInt(PercentScale))
        time_period_years == Q(time_period_days + shift, 365)
        exponent == QMul(QInt(compounds_per_year), time_period_years)
        rate == QDiv(apy_decimal, QInt(compounds_per_year))
        growth == QPow(IF subtract THEN QSub(QInt(1), rate) ELSE QAdd(QInt(1), rate),
                       exponent[1])
        final_sol == QMul(sol_amount, growth)
        sol_earned == QSub(final_sol, sol_amount)
    IN  IF ~IsNum(current_sol_price) THEN Raised("TypeError", 86)
        ELSE IF sol_amount = QZero /\ ~zero_roi THEN Raised("ZeroDivisionError", 95)
        ELSE Returned(
               [initial_sol |-> sol_amount,
                final_sol |-> final_sol,
                sol_earned |-> sol_earned,
                current_value_usd |-> QMul(sol_amount, current_sol_price.q),
                projected_value_usd |->
                    QMul(IF from_principal THEN sol_amount ELSE final_sol,
                         current_sol_price.q),
                roi_percentage |->
                    IF sol_amount = QZero THEN QZero
                    ELSE QMul(QDiv(sol_earned, sol_amount), QInt(PercentScale))])

calculate_staking_returns_offbyone(sol_amount, apy, time_period_days, price_resp) ==
    ReturnsVariant(sol_amount, apy, time_period_days, price_resp, 1, FALSE, FALSE, FALSE)

calculate_staking_returns_subtract(sol_amount, apy, time_period_days, price_resp) ==
    ReturnsVariant(sol_amount, apy, time_period_days, price_resp, 0, TRUE, FALSE, FALSE)

calculate_staking_returns_zero_roi(sol_amount, apy, time_period_days, price_resp) ==
    ReturnsVariant(sol_amount, apy, time_period_days, price_resp, 0, FALSE, TRUE, FALSE)

calculate_staking_returns_from_principal(sol_amount, apy, time_period_days, price_resp) ==
    ReturnsVariant(sol_amount, apy, time_period_days, price_resp, 0, FALSE, FALSE, TRUE)

calculate_staking_returns(sol_amount, apy, time_period_days, price_resp) ==
    LET current_sol_price == get_current_sol_price(price_resp)
        apy_decimal == QDiv(apy, QInt(PercentScale))
        time_period_years == Q(time_period_days, 365)
        \* 365 * (days / 365): a whole number of compounding periods
        exponent == QMul(QInt(compounds_per_year), time_period_years)
        growth == QPow(QAdd(QInt(1), QDiv(apy_decimal, QInt(compounds_per_year))),
                       exponent[1])
        final_sol == QMul(sol_amount, growth)
        sol_earned == QSub(final_sol, sol_amount)
    IN  IF ~IsNum(current_sol_price)
          THEN Raised("TypeError", 86)            \* sol_amount * None / str
        ELSE IF sol_amount = QZero
          THEN Raised("ZeroDivisionError", 95)    \* sol_earned / sol_amount
        ELSE Returned(
               [initial_sol |-> sol_amount,
                final_sol |-> final_sol,
                sol_earned |-> sol_earned,
                current_value_usd |-> QMul(sol_amount, current_sol_price.q),
                projected_value_usd |-> QMul(final_sol, current_sol_price.q),
                roi_percentage |-> QMul(QDiv(sol_earned, sol_amount), QInt(PercentScale))])

(***************************************************************************)
(* The validator ranker (lines 98-131).                                    *)
(*                                                                         *)
(* A frame row is a record over Fields plus `score` and `index` (the       *)
(* frame's index label, the record's position in the input).  A column     *)
(* exists when some input record has the key; a record without the key     *)
(* holds NaN in it.                                                        *)
(***************************************************************************)
Min(a, b) == IF a < b THEN a ELSE b

Columns(rows) == {f \in Fields : \E i \in 1..Len(rows) : rows[i][f].k # "absent"}

\* pd.DataFrame(validators): a copy of the records as rows.
DataFrame(rows) ==
    LET cols == Columns(rows)
        Cell(r, f) == IF f \in cols /\ r[f].k = "absent" THEN NaN ELSE r[f]
    IN  [i \in 1..Len(rows) |->
           [name |-> Cell(rows[i], "name"),
            commission |-> Cell(rows[i], "commission"),
            apy |-> Cell(rows[i], "apy"),
            totalActiveStake |-> Cell(rows[i], "totalActiveStake"),
            creditScore |-> Cell(rows[i], "creditScore"),
            score |-> Absent,
            index |-> i]]

\* pd.to_numeric(cell, errors='coerce')
to_numeric(v) ==
    IF v.k = "num" THEN v
    ELSE IF v.k = "numstr" THEN Num(v.q)
    ELSE IF v.k = "absent" THEN v      \* the column does not exist
    ELSE NaN

CoerceRow(r) ==
    [r EXCEPT !.commission = to_numeric(@), !.apy = to_numeric(@),
              !.totalActiveStake = to_numeric(@), !.creditScore = to_numeric(@)]

\* lines 117-121; arithmetic with NaN gives NaN
Score(r) ==
    IF IsNum(r.apy) /\ IsNum(r.commission) /\ IsNum(r.creditScore)
    THEN Num(QAdd(QAdd(QMul(r.apy.q, ApyWeight),
                       QMul(QSub(QInt(PercentScale), r.commission.q), CommissionWeight)),
                  QMul(r.creditScore.q, CreditWeight)))
    ELSE NaN

\* The builds' argsort: `tie` ranks the index labels, and rows whose keys
\* are equal come out by that rank.  sort_values is called without `kind`,
\* so numpy's default quicksort decides, which promises no order among equal
\* keys; the identity rank is a build whose sort happens to be stable.
Before(a, b, tie, ascending) ==
    IF IsNum(a.score) /\ IsNum(b.score)
    THEN \/ (IF ascending THEN QLt(a.score.q, b.score.q) ELSE QLt(b.score.q, a.score.q))
         \/ (a.score.q = b.score.q /\ tie[a.index] < tie[b.index])
    ELSE IF IsNum(a.score) THEN TRUE            \* na_position = 'last'
    ELSE IF IsNum(b.score) THEN FALSE
    ELSE a.index < b.index

Insert(s, x, tie, ascending) ==
    LET k == Cardinality({i \in 1..Len(s) : Before(s[i], x, tie, ascending)})
    IN  SubSeq(s, 1, k) \o <<x>> \o SubSeq(s, k + 1, Len(s))

RECURSIVE SortBy(_, _, _)
SortBy(rows, tie, ascending) ==
    IF rows = <<>> THEN <<>>
    ELSE Insert(SortBy(SubSeq(rows, 1, Len(rows) - 1), tie, ascending),
                rows[Len(rows)], tie, ascending)

sort_values_ascending(rows, tie) == SortBy(rows, tie, TRUE)

\* df.sort_values('score', ascending=False)
sort_values(rows, tie) == SortBy(rows, tie, FALSE)

\* df.head(n), n >= 0
head(rows, n) == SubSeq(rows, 1, Min(n, Len(rows)))

\* What find_optimal_validators produces: the returned list `ret` (the rows
\* as dicts), `order` (the index labels of the returned rows) and
\* `validators`, the fetched list as the call leaves it.
ToDict(r) ==
    [name |-> r.name, commission |-> r.commission, apy |-> r.apy,
     totalActiveStake |-> r.totalActiveStake, creditScore |-> r.creditScore,
     score |-> r.score]

RankResult(exc, line, rows, validators) ==
    [exc |-> exc, line |-> line,
     ret |-> [i \in 1..Len(rows) |-> ToDict(rows[i])],   \* .to_dict('records')
     order |-> [i \in 1..Len(rows) |-> rows[i].index],
     validators |-> validators]

RequiredColumns == {"commission", "apy", "creditScore"}

find_optimal_validators_inplace(resp, top_n, tie) ==
    LET validators == get_validators(resp)
        coerced == [i \in 1..Len(validators.rows) |-> CoerceRow(validators.rows[i])]
        df == [i \in 1..Len(coerced) |-> [DataFrame(coerced)[i] EXCEPT !.score = Score(DataFrame(coerced)[i])]]
    IN  IF validators.k = "str" THEN RankResult("ValueError", 103, <<>>, validators)
        ELSE IF validators.k = "null" \/ df = <<>> \/ Columns(validators.rows) = {}
          THEN RankResult("none", 0, <<>>, validators)
        ELSE IF ~(RequiredColumns \subseteq Columns(validators.rows))
          THEN RankResult("none", 0, <<>>, [validators EXCEPT !.rows = coerced])
        ELSE RankResult("none", 0, head(sort_values(df, tie), top_n),
                        [validators EXCEPT !.rows = coerced])

find_optimal_validators(resp, top_n, tie) ==
    LET validators == get_validators(resp)                       \* line 100
        frame == DataFrame(validators.rows)                       \* line 103
        numeric == [i \in 1..Len(frame) |-> CoerceRow(frame[i])]  \* lines 110-112
        df == [i \in 1..Len(numeric) |->
                 [numeric[i] EXCEPT !.score = Score(numeric[i])]] \* lines 117-121
    IN  IF validators.k = "str"
          THEN RankResult("ValueError", 103, <<>>, validators)  \* DataFrame("...")
        ELSE IF validators.k = "null" \/ frame = <<>> \/ Columns(validators.rows) = {}
          THEN RankResult("none", 0, <<>>, validators)           \* df.empty
        ELSE IF ~(RequiredColumns \subseteq Columns(validators.rows))
          THEN RankResult("none", 0, <<>>, validators)           \* line 128
        ELSE RankResult("none", 0, head(sort_values(df, tie), top_n), validators)

(***************************************************************************)
(* compare_validators (lines 178-205): the table of the ranked rows, with  *)
(* stake, commission and APY formatted as text.                            *)
(***************************************************************************)
Billion == 1000000000

FormatCell(v, divisor, digits, suffix) ==
    IF v.k = "absent" THEN v
    ELSE IF v.k = "num" THEN Text(QRound(QDiv(v.q, QInt(divisor)), digits), suffix)
    ELSE Text(QZero, "nan" \o suffix)

FormatRow(r) ==
    [r EXCEPT !.totalActiveStake = FormatCell(@, Billion, 2, " B SOL"),
              !.commission = FormatCell(@, 1, 1, "%"),
              !.apy = FormatCell(@, 1, 2, "%")]

compare_validators(validators) ==
    [ret |-> [i \in 1..Len(validators) |-> FormatRow(validators[i])],
     validators |-> validators]

(***************************************************************************)
(* plot_staking_projection (lines 133-176).                                *)
(***************************************************************************)
\* list(range(0, days + 1, 30)), days >= 0
Range30(days) == [i \in 1..(days \div PlotStep + 1) |-> PlotStep * (i - 1)]

plot_intervals_always_append(days) == Append(Range30(days), days)

\* lines 136-138
plot_intervals(days) ==
    LET intervals == Range30(days)
    IN  IF intervals[Len(intervals)] # days THEN Append(intervals, days) ELSE intervals

\* `called`: the days calculate_staking_returns was called with, in order;
\* the first call that raises ends the loop and the function.
PlotResult(exc, line, intervals, called, sol_values, usd_values, saved) ==
    [exc |-> exc, line |-> line, intervals |-> intervals, called |-> called,
     sol_values |-> sol_values, usd_values |-> usd_values, saved |-> saved]

plot_staking_projection(sol_amount, apy, days, price_resp) ==
    LET intervals == plot_intervals(days)
        returns == [i \in 1..Len(intervals) |->
                      calculate_staking_returns(sol_amount, apy, intervals[i], price_resp)]
        first == returns[1]
    IN  IF first.exc # "none"
          THEN PlotResult(first.exc, first.line, intervals, <<intervals[1]>>, <<>>, <<>>, FALSE)
          ELSE PlotResult("none", 0, intervals, intervals,
                          [i \in 1..Len(intervals) |-> returns[i].ret.final_sol],
                          [i \in 1..Len(intervals) |-> returns[i].ret.projected_value_usd],
                          TRUE)

(***************************************************************************)
(* generate_staking_report (lines 207-293).                                *)
(***************************************************************************)
low_commission == Q(0, 1)
avg_commission == Q(5, 100)
high_commission == Q(10, 100)

NoPlot == PlotResult("none", 0, <<>>, <<>>, <<>>, <<>>, FALSE)

ReportResult(exc, line, inflation_rate, top, returns, plot_result, table_rows, written) ==
    [exc |-> exc, line |-> line, inflation_rate |-> inflation_rate,
     top_validators |-> top, returns |-> returns, plot |-> plot_result,
     table |-> table_rows, written |-> written]

generate_staking_report(sol_amount, time_period_days, price_resp, stats_resp, validators_resp, tie) ==
    LET network_stats == get_network_stats(stats_resp)                      \* line 210
        inflation_rate == IF network_stats.inflation.k = "absent"
                          THEN Num(DefaultInflation)
                          ELSE network_stats.inflation                      \* line 211
        top == find_optimal_validators(validators_resp, ReportTopN, tie)   \* line 214
        low_apy == calculate_apy(inflation_rate.q, high_commission)
        avg_apy == calculate_apy(inflation_rate.q, avg_commission)
        high_apy == calculate_apy(inflation_rate.q, low_commission)
        low_returns == calculate_staking_returns(sol_amount, low_apy,
                                                 time_period_days, price_resp)
        avg_returns == calculate_staking_returns(sol_amount, avg_apy,
                                                 time_period_days, price_resp)
        high_returns == calculate_staking_returns(sol_amount, high_apy,
                                                  time_period_days, price_resp)
        returns == <<low_returns, avg_returns, high_returns>>
        plotted == plot_staking_projection(sol_amount, avg_apy,
                                           time_period_days, price_resp)   \* line 230
        table_rows == compare_validators(top.ret).ret                       \* line 272
    IN  IF network_stats.shape # "dict"       \* list / None has no .get
          THEN ReportResult("AttributeError", 211, Absent, <<>>, <<>>, NoPlot, <<>>, FALSE)
        ELSE IF top.exc # "none"
          THEN ReportResult(top.exc, top.line, inflation_rate, <<>>, <<>>, NoPlot, <<>>, FALSE)
        ELSE IF ~IsNum(inflation_rate)        \* "n/a" * (1 - 0.1)
          THEN ReportResult("TypeError", 65, inflation_rate, top.ret, <<>>, NoPlot, <<>>, FALSE)
        ELSE IF low_returns.exc # "none"
          THEN ReportResult(low_returns.exc, low_returns.line, inflation_rate, top.ret,
                            <<>>, NoPlot, <<>>, FALSE)
        ELSE ReportResult("none", 0, inflation_rate, top.ret, returns, plotted,
                          table_rows, TRUE)

(***************************************************************************)
(* State.  The analyzer keeps nothing between calls; the state is the      *)
(* world it runs in (what each source answers, how the build's argsort     *)
(* orders equal keys), the arguments of the calls and what the calls made  *)
(* so far produced.                                                        *)
(***************************************************************************)
VARIABLES
    price_resp,        \* what the price source answers now
    stats_resp,        \* what the stats source answers now
    validators_resp,   \* what the validator source answers now
    tie,               \* the build's order among equal sort keys
    apy_call,          \* calculate_apy: arguments and result
    returns_args,      \* calculate_staking_returns: arguments
    returns_log,       \* calculate_staking_returns: the last two calls
    top_n,             \* find_optimal_validators: argument
    rank_log,          \* find_optimal_validators: the last two calls
    table,             \* compare_validators on the last ranking
    plot,              \* plot_staking_projection: arguments and result
    report             \* generate_staking_report: arguments and result

vars == <<price_resp, stats_resp, validators_resp, tie, apy_call, returns_args,
          returns_log, top_n, rank_log, table, plot, report>>

(***************************************************************************)
(* Bounds and input sets.                                                  *)
(***************************************************************************)
MaxTopN == 4
MaxHorizon == 3
MaxPlotDays == 125
MaxInflationPct == 10
MaxCommissionTwentieths == 25
MaxReportValidators == 1

TopNs == 0..MaxTopN
Amounts == {QInt(0), QInt(1), QInt(10)}
\* APYs whose daily growth factor 1 + apy/36500 is 0, 9/10, 1, 11/10, 2
Apys == {QInt(-36500), QInt(-3650), QInt(0), QInt(3650), QInt(36500)}
Horizons == 0..MaxHorizon
\* the growth factors 0 and 1, whose powers stay small over a long horizon
PlotApys == {QInt(-36500), QInt(0)}
PlotDays == 0..MaxPlotDays
\* the default inflation gives APYs of 9, 9.5 and 10 percent, whose growth
\* factors have five-digit denominators
ReportDays == {0, 1}
InflationRates == {Q(k, 100) : k \in (-2)..MaxInflationPct}
Commissions == {Q(k, 20) : k \in 0..MaxCommissionTwentieths}

\* Two of the orders a build's argsort may give to equal keys: the input
\* order (a sort that happens to be stable) and its reverse.
StableRank == [i \in 1..MaxValidators |-> i]
ReverseRank == [i \in 1..MaxValidators |-> MaxValidators + 1 - i]
TieRanks == {StableRank, ReverseRank}

ReportValidatorsResponses ==
    {r \in ValidatorsResponses : Len(r.data.rows) <= MaxReportValidators}

(***************************************************************************)
(* Initial states.  The arguments of each call are drawn here; the actions *)
(* below make the calls.                                                   *)
(***************************************************************************)
\* commission_given = FALSE: the call leaves validator_commission out
ApyCall(called, inflation_rate, commission_given, validator_commission, ret) ==
    [called |-> called, inflation_rate |-> inflation_rate,
     commission_given |-> commission_given,
     validator_commission |-> validator_commission, ret |-> ret]
ReturnsArgs(sol_amount, apy, time_period_days) ==
    [sol_amount |-> sol_amount, apy |-> apy, time_period_days |-> time_period_days]
PlotCall(called, sol_amount, apy, days, out) ==
    [called |-> called, sol_amount |-> sol_amount, apy |-> apy, days |-> days,
     out |-> out]
ReportCall(called, sol_amount, time_period_days, out) ==
    [called |-> called, sol_amount |-> sol_amount,
     time_period_days |-> time_period_days, out |-> out]

NoTable == [called |-> FALSE, out |-> compare_validators(<<>>)]
NoReportOut == ReportResult("none", 0, Absent, <<>>, <<>>, NoPlot, <<>>, FALSE)

HealthyPrice == PriceResp("none", "solana_usd", Num(QInt(2)))
HealthyStats == StatsResp("none", Stats("dict", Num(DefaultInflation)))
NoValidators == ValidatorsResp("none", "dict", EmptyList)

\* the variables a specification does not use
IdleSources ==
    /\ price_resp = HealthyPrice
    /\ stats_resp = HealthyStats
    /\ validators_resp = NoValidators
    /\ tie = StableRank
IdleApy == apy_call = ApyCall(FALSE, QZero, FALSE, QZero, QZero)
IdleReturns == returns_args = ReturnsArgs(QInt(1), QZero, 0) /\ returns_log = <<>>
IdleRank == top_n = 0 /\ rank_log = <<>> /\ table = NoTable
IdlePlot == plot = PlotCall(FALSE, QInt(1), QZero, 0, NoPlot)
IdleReport == report = ReportCall(FALSE, QInt(1), 0, NoReportOut)

\* a run of the program: any answers, any build, any command line
Init ==
    /\ price_resp \in PriceResponses
    /\ stats_resp \in StatsResponses
    /\ validators_resp \in ReportValidatorsResponses
    /\ tie \in TieRanks
    /\ report \in {ReportCall(FALSE, a, d, NoReportOut) : a \in Amounts, d \in ReportDays}
    /\ IdleApy /\ IdleReturns /\ IdleRank /\ IdlePlot

InitApy ==
    /\ apy_call \in
         {ApyCall(FALSE, i, TRUE, c, QZero) : i \in InflationRates, c \in Commissions}
           \cup {ApyCall(FALSE, i, FALSE, QZero, QZero) : i \in InflationRates}
    /\ IdleSources /\ IdleReturns /\ IdleRank /\ IdlePlot /\ IdleReport

InitReturns ==
    /\ returns_args \in {ReturnsArgs(a, r, d) : a \in Amounts, r \in Apys, d \in Horizons}
    /\ returns_log = <<>>
    /\ IdleSources /\ IdleApy /\ IdleRank /\ IdlePlot /\ IdleReport

InitRank ==
    /\ validators_resp \in ValidatorsResponses
    /\ tie \in TieRanks
    /\ top_n \in TopNs
    /\ rank_log = <<>>
    /\ table = NoTable
    /\ price_resp = HealthyPrice
    /\ stats_resp = HealthyStats
    /\ IdleApy /\ IdleReturns /\ IdlePlot /\ IdleReport

InitPlot ==
    /\ price_resp \in PriceResponses
    /\ plot \in {PlotCall(FALSE, a, r, d, NoPlot) :
                   a \in Amounts, r \in PlotApys, d \in PlotDays}
    /\ stats_resp = HealthyStats
    /\ validators_resp = NoValidators
    /\ tie = StableRank
    /\ IdleApy /\ IdleReturns /\ IdleRank /\ IdleReport

(***************************************************************************)
(* Actions.                                                                *)
(***************************************************************************)
\* the price source starts answering something else
PriceChanges(r) ==
    /\ r # price_resp
    /\ price_resp' = r
    /\ UNCHANGED <<stats_resp, validators_resp, tie, apy_call, returns_args,
                   returns_log, top_n, rank_log, table, plot, report>>

CalculateApy ==
    /\ apy_call' = [apy_call EXCEPT
                      !.called = TRUE,
                      !.ret = calculate_apy(apy_call.inflation_rate,
                                            IF apy_call.commission_given
                                            THEN apy_call.validator_commission
                                            ELSE DefaultCommission)]
    /\ UNCHANGED <<price_resp, stats_resp, validators_resp, tie, returns_args,
                   returns_log, top_n, rank_log, table, plot, report>>

\* `price`: what the fetch of line 74 returned to this call
CalculateStakingReturns ==
    LET call == [price |-> get_current_sol_price(price_resp),
                 out |-> calculate_staking_returns(
                            returns_args.sol_amount, returns_args.apy,
                            returns_args.time_period_days, price_resp)]
    IN  /\ returns_log' = IF returns_log = <<>> THEN <<call>>
                          ELSE <<returns_log[Len(returns_log)], call>>
        /\ UNCHANGED <<price_resp, stats_resp, validators_resp, tie, apy_call,
                       returns_args, top_n, rank_log, table, plot, report>>

\* `before`: the fetched list as the call receives it
FindOptimalValidators ==
    LET call == [before |-> get_validators(validators_resp),
                 out |-> find_optimal_validators(validators_resp, top_n, tie)]
    IN  /\ rank_log' = IF rank_log = <<>> THEN <<call>>
                       ELSE <<rank_log[Len(rank_log)], call>>
        /\ UNCHANGED <<price_resp, stats_resp, validators_resp, tie, apy_call,
                       returns_args, returns_log, top_n, table, plot, report>>

\* the table of the last ranking
CompareValidators ==
    /\ rank_log # <<>>
    /\ rank_log[Len(rank_log)].out.exc = "none"
    /\ table' = [called |-> TRUE,
                 out |-> compare_validators(rank_log[Len(rank_log)].out.ret)]
    /\ UNCHANGED <<price_resp, stats_resp, validators_resp, tie, apy_call,
                   returns_args, returns_log, top_n, rank_log, plot, report>>

PlotStakingProjection ==
    /\ plot' = [plot EXCEPT
                  !.called = TRUE,
                  !.out = plot_staking_projection(plot.sol_amount, plot.apy,
                                                  plot.days, price_resp)]
    /\ UNCHANGED <<price_resp, stats_resp, validators_resp, tie, apy_call,
                   returns_args, returns_log, top_n, rank_log, table, report>>

GenerateStakingReport ==
    /\ report' = [report EXCEPT
                    !.called = TRUE,
                    !.out = generate_staking_report(
                               report.sol_amount, report.time_period_days,
                               price_resp, stats_resp, validators_resp, tie)]
    /\ UNCHANGED <<price_resp, stats_resp, validators_resp, tie, apy_call,
                   returns_args, returns_log, top_n, rank_log, table, plot>>

(***************************************************************************)
(* Specifications: the program run (main builds the report), and each      *)
(* method driven alone over wider inputs.                                  *)
(***************************************************************************)
Next == GenerateStakingReport

Spec == Init /\ [][Next]_vars

NextApy == CalculateApy

SpecApy == InitApy /\ [][NextApy]_vars

NextReturns ==
    \/ \E r \in PriceResponses : PriceChanges(r)
    \/ CalculateStakingReturns

SpecReturns == InitReturns /\ [][NextReturns]_vars

NextRank ==
    \/ FindOptimalValidators
    \/ CompareValidators

SpecRank == InitRank /\ [][NextRank]_vars

NextPlot == PlotStakingProjection

SpecPlot == InitPlot /\ [][NextPlot]_vars

(***************************************************************************)
(* Properties of calculate_apy (SpecApy).                                  *)
(***************************************************************************)
ApyCommission ==
    IF apy_call.commission_given THEN apy_call.validator_commission ELSE QZero

\* C6: calculate_apy(inflation_rate, commission) is
\* inflation_rate * (1 - commission) / 0.8 * 100 for every input, unclamped
\* (commission > 1 or inflation_rate < 0 gives a negative result);
\* (0.08, 0.0) gives 10, (0.08, 0.10) gives 9, (0.08, 0.05) gives 9.5, and a
\* call without commission gives what commission 0 gives.
C6_ApyFormula ==
    apy_call.called =>
      LET i == apy_call.inflation_rate
          c == ApyCommission
          ret == apy_call.ret
      IN  /\ QMul(ret, Q(8, 10)) = QMul(QMul(i, QSub(QInt(1), c)), QInt(100))
          /\ (QLt(QInt(1), c) /\ QLt(QZero, i)) => QLt(ret, QZero)
          /\ (QLt(i, QZero) /\ QLt(c, QInt(1))) => QLt(ret, QZero)
          /\ (i = Q(8, 100) /\ c = QZero) => ret = QInt(10)
          /\ (i = Q(8, 100) /\ c = Q(10, 100)) => ret = QInt(9)
          /\ (i = Q(8, 100) /\ c = Q(5, 100)) => ret = Q(95, 10)
          /\ (~apy_call.commission_given) => QMul(ret, Q(8, 10)) = QMul(i, QInt(100))

C6_Witness ==
    /\ apy_call.called
    /\ apy_call.commission_given
    /\ apy_call.inflation_rate = Q(8, 100)
    /\ apy_call.validator_commission = Q(5, 4)
    /\ apy_call.ret = Q(-5, 2)

(***************************************************************************)
(* Properties of calculate_staking_returns (SpecReturns).                  *)
(***************************************************************************)
ReturnsCalls == {returns_log[i] : i \in 1..Len(returns_log)}

SolFields(p) == <<p.initial_sol, p.final_sol, p.sol_earned, p.roi_percentage>>

C4_ZeroPrincipalRaises ==
    \A c \in ReturnsCalls :
        (returns_args.sol_amount = QZero /\ IsNum(c.price)) =>
            /\ c.out.exc = "ZeroDivisionError"
            /\ c.out.line = 95
            /\ c.out.ret = NoProjection

C4_Witness ==
    /\ returns_args.sol_amount = QZero
    /\ returns_args.time_period_days > 0
    /\ returns_args.apy # QZero
    /\ \E c \in ReturnsCalls : IsNum(c.price) /\ c.out.exc = "ZeroDivisionError"

\* C8: with principal > 0 and horizon 0 (any APY, any numeric price) the call
\* returns final_sol = principal, sol_earned = 0, roi_percentage = 0 and
\* projected_value_usd = current_value_usd.
C8_ZeroHorizonIdentity ==
    \A c \in ReturnsCalls :
        (/\ QLt(QZero, returns_args.sol_amount)
         /\ returns_args.time_period_days = 0
         /\ IsNum(c.price)) =>
            /\ c.out.exc = "none"
            /\ c.out.ret.final_sol = returns_args.sol_amount
            /\ c.out.ret.sol_earned = QZero
            /\ c.out.ret.roi_percentage = QZero
            /\ c.out.ret.projected_value_usd = c.out.ret.current_value_usd

C8_Witness ==
    /\ returns_args.time_period_days = 0
    /\ returns_args.sol_amount = QInt(10)
    /\ QLt(returns_args.apy, QZero)
    /\ \E c \in ReturnsCalls :
          c.out.exc = "none" /\ c.price = Num(QInt(3))
            /\ c.out.ret.projected_value_usd = QInt(30)

\* C9: with principal >= 0, APY >= 0 and horizon >= 0, every projection the
\* call returns has final_sol >= principal >= 0 and sol_earned >= 0, and one
\* more day never gives a smaller final_sol.
C9_NonNegativeGrowth ==
    \A c \in ReturnsCalls :
        (/\ QLe(QZero, returns_args.sol_amount)
         /\ QLe(QZero, returns_args.apy)
         /\ returns_args.time_period_days >= 0
         /\ c.out.exc = "none") =>
            /\ QLe(returns_args.sol_amount, c.out.ret.final_sol)
            /\ QLe(QZero, c.out.ret.initial_sol)
            /\ QLe(QZero, c.out.ret.sol_earned)
            /\ QLe(c.out.ret.final_sol,
                   calculate_staking_returns(
                       returns_args.sol_amount, returns_args.apy,
                       returns_args.time_period_days + 1, HealthyPrice).ret.final_sol)

C9_Witness ==
    /\ QLt(QZero, returns_args.apy)
    /\ returns_args.time_period_days = MaxHorizon
    /\ \E c \in ReturnsCalls :
          c.out.exc = "none" /\ QLt(returns_args.sol_amount, c.out.ret.final_sol)

(***************************************************************************)
(* Properties of plot_staking_projection (SpecPlot).                       *)
(***************************************************************************)
\* C10: for every days >= 0 the sample days start at 0, end at days, are
\* strictly increasing, hold every multiple of 30 in [0, days], are at most
\* 30 apart, and the final day is appended only when days is no multiple of
\* 30; calculate_staking_returns is called on them in this order.
C10_SampleDays ==
    plot.called =>
      LET s == plot.out.intervals
          n == Len(s)
      IN  /\ n >= 1
          /\ s[1] = 0
          /\ s[n] = plot.days
          /\ \A i \in 1..(n - 1) : s[i] < s[i + 1] /\ s[i + 1] - s[i] <= 30
          /\ \A m \in 0..plot.days : m % 30 = 0 => \E i \in 1..n : s[i] = m
          /\ n = plot.days \div 30 + 1 + (IF plot.days % 30 = 0 THEN 0 ELSE 1)
          /\ plot.out.exc = "none" => plot.out.called = s
          /\ plot.out.exc # "none" => plot.out.called = <<0>>

C10_Witness ==
    /\ plot.called
    /\ plot.days = 95
    /\ plot.out.exc = "none"
    /\ plot.out.called = <<0, 30, 60, 90, 95>>

(***************************************************************************)
(* Properties of the ranker and the table (SpecRank).                      *)
(***************************************************************************)
RankCalls == {rank_log[i] : i \in 1..Len(rank_log)}

\* commission, apy and creditScore present and readable as numbers
Eligible(rec) ==
    \A f \in RequiredColumns : rec[f].k \in {"num", "numstr"}

EligibleCount(rows) == Cardinality({i \in 1..Len(rows) : Eligible(rows[i])})

\* C1: for every list of records and every top_n >= 0 the ranker returns
\* exactly min(top_n, k) records, k the number of eligible records, and
\* every returned record is eligible (its score is a number).
C1_ExactlyTheEligible ==
    \A c \in RankCalls :
        c.before.k = "list" =>
            /\ c.out.exc = "none"
            /\ Len(c.out.ret) = Min(top_n, EligibleCount(c.before.rows))
            /\ \A i \in 1..Len(c.out.ret) : Eligible(c.before.rows[c.out.order[i]])

C3_SourcesNeverRaiseIntoCore ==
    report.called =>
        /\ IsNum(get_current_sol_price(price_resp))
        /\ get_network_stats(stats_resp).shape = "dict"
        /\ get_validators(validators_resp).k = "list"
        /\ report.out.exc \in {"none", "ZeroDivisionError"}

====
